---- MODULE Spec2Model ----
(***************************************************************************)
(* The completion relay of the edge worker (api/src/lib.rs): the /ai route *)
(* resolves two credentials, sends one POST to the inference endpoint,     *)
(* interprets the response with a layered fallback and re-emits the text   *)
(* as text/event-stream frames of three words each, closed by a [DONE]     *)
(* frame.                                                                  *)
(*                                                                         *)
(* A string is a sequence of characters (one-character TLA+ strings), so   *)
(* that format!, split_whitespace, join, JSON parsing and serialisation    *)
(* are computed character by character.                                    *)
(***************************************************************************)
EXTENDS Integers, Sequences, FiniteSets, TLC

VARIABLES env, pc, sends, response, fault, ai_response, final_chunks, result, handled, send_failed

vars == <<env, pc, sends, response, fault, ai_response, final_chunks, result, handled, send_failed>>

(***************************************************************************)
(* Bounds of the model.                                                    *)
(***************************************************************************)
\* Upstream text bodies hold at most MaxWords words.
MaxWords == 6
\* Number of /ai requests the worker handles in one behaviour.
MaxRequests == 2

(***************************************************************************)
(* Characters and strings.                                                 *)
(***************************************************************************)
\* The characters of object keys, in code point order.
KeyChars == <<"0","1","2","3","4","5","6","7","8","9","A","B","C","D","E","F","G","H","I","J","K","L","M","N","O","P","Q","R","S","T","U","V","W","X","Y","Z","_","a","b","c","d","e","f","g","h","i","j","k","l","m","n","o","p","q","r","s","t","u","v","w","x","y","z">>

\* Rank of a key character by code point (BTreeMap<String, Value> sorts keys by it).
CharCode(c) == CHOOSE i \in 1..Len(KeyChars) : KeyChars[i] = c

\* The characters of the model for which char::is_whitespace holds.
Whitespace == {" ", "\t", "\n", "\r"}

Min(a, b) == IF a <= b THEN a ELSE b

DigitChars == <<"0","1","2","3","4","5","6","7","8","9">>

Digits == {DigitChars[d] : d \in 1..10}

IsDigit(c) == c \in Digits

DigitValue(c) == (CHOOSE d \in 1..10 : DigitChars[d] = c) - 1

\* Display of an unsigned integer: its decimal digits.
RECURSIVE Decimal(_)
Decimal(n) ==
    IF n < 10 THEN <<DigitChars[n + 1]>>
    ELSE Decimal(n \div 10) \o <<DigitChars[(n % 10) + 1]>>

\* The value of a run of decimal digits.
RECURSIVE DecimalValue(_)
DecimalValue(ds) ==
    IF ds = <<>> THEN 0
    ELSE 10 * DecimalValue(SubSeq(ds, 1, Len(ds) - 1)) + DigitValue(ds[Len(ds)])

\* Iterator::collect::<String>(): the strings of a sequence, concatenated.
RECURSIVE Collect(_)
Collect(ss) == IF ss = <<>> THEN <<>> ELSE Head(ss) \o Collect(Tail(ss))

\* [&str]::join(sep)
RECURSIVE Join(_, _)
Join(ws, sep) ==
    IF ws = <<>> THEN <<>>
    ELSE IF Len(ws) = 1 THEN ws[1]
    ELSE ws[1] \o sep \o Join(Tail(ws), sep)

(***************************************************************************)
(* serde_json::Value, from_str, get, as_str and Display, for the JSON the  *)
(* bodies of the model are written in: objects, arrays, strings without    *)
(* escapes, unsigned integers, true, false and null. The bodies hold no    *)
(* backslash, sign, fraction or exponent, on which from_str does more.     *)
(***************************************************************************)
JNull == [t |-> "null"]
JBool(b) == [t |-> "bool", b |-> b]
JNum(n) == [t |-> "num", n |-> n]
JStr(s) == [t |-> "str", s |-> s]
JArr(a) == [t |-> "arr", a |-> a]
JObj(m) == [t |-> "obj", m |-> m]

ParseFail == [ok |-> FALSE]
ParseOk(v, i) == [ok |-> TRUE, v |-> v, i |-> i]

\* Lexicographic order of two strings by code point.
RECURSIVE KeyLess(_, _)
KeyLess(a, b) ==
    IF b = <<>> THEN FALSE
    ELSE IF a = <<>> THEN TRUE
    ELSE IF a[1] = b[1] THEN KeyLess(Tail(a), Tail(b))
    ELSE CharCode(a[1]) < CharCode(b[1])

\* Map::insert: members stay sorted by key, a repeated key keeps the last value.
RECURSIVE MapInsert(_, _, _)
MapInsert(m, k, v) ==
    IF m = <<>> THEN <<[k |-> k, v |-> v]>>
    ELSE IF m[1].k = k THEN <<[k |-> k, v |-> v]>> \o Tail(m)
    ELSE IF KeyLess(k, m[1].k) THEN <<[k |-> k, v |-> v]>> \o m
    ELSE <<m[1]>> \o MapInsert(Tail(m), k, v)

\* The first index from i on whose character is in C; Len(s) + 1 if there is none.
FirstIn(s, i, C) ==
    IF \E j \in i..Len(s) : s[j] \in C
    THEN CHOOSE j \in i..Len(s) : s[j] \in C /\ \A k \in i..(j - 1) : s[k] \notin C
    ELSE Len(s) + 1

\* The first index from i on whose character is not in C; Len(s) + 1 if there is none.
FirstNotIn(s, i, C) ==
    IF \E j \in i..Len(s) : s[j] \notin C
    THEN CHOOSE j \in i..Len(s) : s[j] \notin C /\ \A k \in i..(j - 1) : s[k] \in C
    ELSE Len(s) + 1

\* Index of the first character from i on that is not JSON whitespace.
SkipWs(s, i) == FirstNotIn(s, i, {" ", "\t", "\n", "\r"})

\* Index of the quote closing the string whose first character is s[i]; 0 if the
\* string is not closed or holds a control character or an escape.
StringEnd(s, i) ==
    LET e == FirstIn(s, i, {"\"", "\\", "\t", "\n", "\r"}) IN
    IF e <= Len(s) /\ s[e] = "\"" THEN e ELSE 0

\* Index after the last digit of the run of digits starting at s[i].
DigitsEnd(s, i) == FirstNotIn(s, i, Digits)

ParseLiteral(s, i, word, v) ==
    IF i + Len(word) - 1 <= Len(s) /\ SubSeq(s, i, i + Len(word) - 1) = word
    THEN ParseOk(v, i + Len(word))
    ELSE ParseFail

ParseString(s, i) ==
    LET e == StringEnd(s, i + 1) IN
    IF e = 0 THEN ParseFail ELSE ParseOk(JStr(SubSeq(s, i + 1, e - 1)), e + 1)

ParseNumber(s, i) ==
    LET e == IF s[i] = "0" THEN i + 1 ELSE DigitsEnd(s, i) IN
    ParseOk(JNum(DecimalValue(SubSeq(s, i, e - 1))), e)

RECURSIVE ParseValue(_, _)
RECURSIVE ParseElements(_, _, _)
RECURSIVE ParseMembers(_, _, _)

\* The elements of an array after "[" or ","; acc holds those parsed so far.
ParseElements(s, i, acc) ==
    LET r == ParseValue(s, i) IN
    IF ~r.ok THEN ParseFail
    ELSE LET j == SkipWs(s, r.i) IN
         IF j > Len(s) THEN ParseFail
         ELSE IF s[j] = "," THEN ParseElements(s, j + 1, Append(acc, r.v))
         ELSE IF s[j] = "]" THEN ParseOk(JArr(Append(acc, r.v)), j + 1)
         ELSE ParseFail

\* The members of an object after "{" or ","; acc holds those parsed so far.
ParseMembers(s, i, acc) ==
    LET k == SkipWs(s, i) IN
    IF k > Len(s) \/ s[k] # "\"" THEN ParseFail
    ELSE LET key == ParseString(s, k) IN
         IF ~key.ok THEN ParseFail
         ELSE LET c == SkipWs(s, key.i) IN
              IF c > Len(s) \/ s[c] # ":" THEN ParseFail
              ELSE LET r == ParseValue(s, c + 1) IN
                   IF ~r.ok THEN ParseFail
                   ELSE LET j == SkipWs(s, r.i)
                            m == MapInsert(acc, key.v.s, r.v)
                        IN  IF j > Len(s) THEN ParseFail
                            ELSE IF s[j] = "," THEN ParseMembers(s, j + 1, m)
                            ELSE IF s[j] = "}" THEN ParseOk(JObj(m), j + 1)
                            ELSE ParseFail

ParseValue(s, i0) ==
    LET i == SkipWs(s, i0) IN
    IF i > Len(s) THEN ParseFail
    ELSE CASE s[i] = "n" -> ParseLiteral(s, i, <<"n","u","l","l">>, JNull)
           [] s[i] = "t" -> ParseLiteral(s, i, <<"t","r","u","e">>, JBool(TRUE))
           [] s[i] = "f" -> ParseLiteral(s, i, <<"f","a","l","s","e">>, JBool(FALSE))
           [] s[i] = "\"" -> ParseString(s, i)
           [] IsDigit(s[i]) -> ParseNumber(s, i)
           [] s[i] = "[" ->
                LET j == SkipWs(s, i + 1) IN
                IF j <= Len(s) /\ s[j] = "]" THEN ParseOk(JArr(<<>>), j + 1)
                ELSE ParseElements(s, i + 1, <<>>)
           [] s[i] = "{" ->
                LET j == SkipWs(s, i + 1) IN
                IF j <= Len(s) /\ s[j] = "}" THEN ParseOk(JObj(<<>>), j + 1)
                ELSE ParseMembers(s, i + 1, <<>>)
           [] OTHER -> ParseFail

\* serde_json::from_str::<Value>: one value, then only whitespace.
FromStr(s) ==
    LET r == ParseValue(s, 1) IN
    IF r.ok /\ SkipWs(s, r.i) > Len(s) THEN [ok |-> TRUE, v |-> r.v] ELSE ParseFail

None == [some |-> FALSE]
Some(v) == [some |-> TRUE, v |-> v]

RECURSIVE Lookup(_, _)
Lookup(m, k) ==
    IF m = <<>> THEN None
    ELSE IF m[1].k = k THEN Some(m[1].v)
    ELSE Lookup(Tail(m), k)

\* Value::get(&str): a member of an object, None for every other value.
Get(v, k) == IF v.t = "obj" THEN Lookup(v.m, k) ELSE None

\* Option<&Value>::and_then(|v| v.as_str())
AndThenAsStr(o) == IF o.some /\ o.v.t = "str" THEN Some(o.v.s) ELSE None

\* Display of a Value: compact JSON.
RECURSIVE Serialize(_)
RECURSIVE SerializeElements(_)
RECURSIVE SerializeMembers(_)

SerializeElements(a) ==
    IF a = <<>> THEN <<>>
    ELSE IF Len(a) = 1 THEN Serialize(a[1])
    ELSE Serialize(a[1]) \o <<",">> \o SerializeElements(Tail(a))

SerializeMembers(m) ==
    LET one == <<"\"">> \o m[1].k \o <<"\"", ":">> \o Serialize(m[1].v) IN
    IF Len(m) = 1 THEN one ELSE one \o <<",">> \o SerializeMembers(Tail(m))

Serialize(v) ==
    CASE v.t = "null" -> <<"n","u","l","l">>
      [] v.t = "bool" -> IF v.b THEN <<"t","r","u","e">> ELSE <<"f","a","l","s","e">>
      [] v.t = "num" -> Decimal(v.n)
      [] v.t = "str" -> <<"\"">> \o v.s \o <<"\"">>
      [] v.t = "arr" -> <<"[">> \o SerializeElements(v.a) \o <<"]">>
      [] v.t = "obj" ->
           <<"{">> \o (IF v.m = <<>> THEN <<>> ELSE SerializeMembers(v.m)) \o <<"}">>

(***************************************************************************)
(* Results and the texts of the code.                                      *)
(***************************************************************************)
Pending == [tag |-> "Pending"]
Ok(v) == [tag |-> "Ok", v |-> v]
Err == [tag |-> "Err"]

MsgNoAccountId == <<"E","r","r","o","r",":"," ","C","L","O","U","D","F","L","A","R","E","_","A","C","C","O","U","N","T","_","I","D"," ","e","n","v","i","r","o","n","m","e","n","t"," ","v","a","r","i","a","b","l","e"," ","n","o","t"," ","s","e","t">>
MsgNoApiToken == <<"E","r","r","o","r",":"," ","C","L","O","U","D","F","L","A","R","E","_","A","P","I","_","T","O","K","E","N"," ","e","n","v","i","r","o","n","m","e","n","t"," ","v","a","r","i","a","b","l","e"," ","n","o","t"," ","s","e","t">>
FailedPrefix == <<"A","P","I"," ","r","e","q","u","e","s","t"," ","f","a","i","l","e","d"," ","w","i","t","h"," ","s","t","a","t","u","s"," ">>
AiPrefix == <<"A","I"," ","R","e","s","p","o","n","s","e",":"," ">>
FullPrefix == <<"F","u","l","l"," ","A","P","I"," ","R","e","s","p","o","n","s","e",":"," ">>
DataPrefix == <<"d","a","t","a",":"," ">>
FrameEnd == <<"\n","\n">>
DoneFrame == <<"d","a","t","a",":"," ","[","D","O","N","E","]","\n","\n">>
KeyResult == <<"r","e","s","u","l","t">>
KeyResponse == <<"r","e","s","p","o","n","s","e">>

ChunkSize == 3

\* The configuration keys get_ai_response reads.
Keys == {"CLOUDFLARE_ACCOUNT_ID", "CLOUDFLARE_API_TOKEN"}

\* Faulty variant of Interpret: a result without a string response is reported
\* as the whole document instead of the result.
InterpretSkipsResult(status_code, response_text) ==
    IF status_code = 200
    THEN LET parsed == FromStr(response_text) IN
         IF parsed.ok
         THEN LET json == parsed.v
                  text == IF Get(json, KeyResult).some
                          THEN AndThenAsStr(Get(Get(json, KeyResult).v, KeyResponse))
                          ELSE None
              IN  IF text.some THEN Ok(text.v)
                  ELSE Ok(FullPrefix \o Serialize(json))
         ELSE Ok(response_text)
    ELSE Ok(FailedPrefix \o Decimal(status_code) \o <<":", " ">> \o response_text)

\* Faulty variant of Interpret: a status other than 200 is returned as an error.
InterpretFailsOnStatus(status_code, response_text) ==
    IF status_code = 200
    THEN LET parsed == FromStr(response_text) IN
         IF parsed.ok
         THEN LET json == parsed.v
                  result_field == Get(json, KeyResult)
              IN  IF result_field.some
                  THEN LET text == AndThenAsStr(Get(result_field.v, KeyResponse)) IN
                       IF text.some THEN Ok(text.v)
                       ELSE Ok(AiPrefix \o Serialize(result_field.v))
                  ELSE Ok(FullPrefix \o Serialize(json))
         ELSE Ok(response_text)
    ELSE Err

(***************************************************************************)
(* get_ai_response, after the response arrived: the interpretation of      *)
(* (status_code, response_text).                                           *)
(***************************************************************************)
Interpret(status_code, response_text) ==
    IF status_code = 200
    THEN LET parsed == FromStr(response_text) IN
         IF parsed.ok
         THEN LET json == parsed.v
                  result_field == Get(json, KeyResult)
              IN  IF result_field.some
                  THEN LET text == AndThenAsStr(Get(result_field.v, KeyResponse)) IN
                       IF text.some THEN Ok(text.v)
                       ELSE Ok(AiPrefix \o Serialize(result_field.v))
                  ELSE Ok(FullPrefix \o Serialize(json))
         ELSE Ok(response_text)
    ELSE Ok(FailedPrefix \o Decimal(status_code) \o <<":", " ">> \o response_text)

(***************************************************************************)
(* stream_ai_response: the framing of the completion text.                 *)
(***************************************************************************)
\* str::split_whitespace: the maximal runs of characters that are not whitespace.
RECURSIVE SplitFrom(_, _, _)
SplitFrom(s, i, acc) ==
    LET b == FirstNotIn(s, i, Whitespace) IN
    IF b > Len(s) THEN acc
    ELSE LET e == FirstIn(s, b, Whitespace) IN
         SplitFrom(s, e, Append(acc, SubSeq(s, b, e - 1)))

split_whitespace(s) == SplitFrom(s, 1, <<>>)

\* Faulty variant of Chunks: slice::chunks_exact(n), which drops a shorter last run.
RECURSIVE ChunksExact(_, _)
ChunksExact(words, n) ==
    IF Len(words) < n THEN <<>>
    ELSE <<SubSeq(words, 1, n)>> \o ChunksExact(SubSeq(words, n + 1, Len(words)), n)

\* slice::chunks(n): runs of n elements, the last one shorter when n does not divide.
RECURSIVE Chunks(_, _)
Chunks(words, n) ==
    IF words = <<>> THEN <<>>
    ELSE LET k == Min(n, Len(words)) IN
         <<SubSeq(words, 1, k)>> \o Chunks(SubSeq(words, k + 1, Len(words)), n)

\* Faulty variant of FormatChunk: the words joined without a separator.
FormatChunkNoSeparator(chunk_words) == DataPrefix \o Collect(chunk_words) \o FrameEnd

\* The closure of the map: format!("data: {}\n\n", chunk_words.join(" ")).
FormatChunk(chunk_words) == DataPrefix \o Join(chunk_words, <<" ">>) \o FrameEnd

\* Faulty variant of FinalChunks: the completion marker is not appended.
FinalChunksNoMarker(text) ==
    LET runs == Chunks(split_whitespace(text), ChunkSize) IN
    Collect([k \in 1..Len(runs) |-> FormatChunk(runs[k])])

\* format!("{}data: [DONE]\n\n", chunks), chunks collected from the formatted runs.
FinalChunks(text) ==
    LET words == split_whitespace(text)
        runs == Chunks(words, ChunkSize)
        chunks == Collect([k \in 1..Len(runs) |-> FormatChunk(runs[k])])
    IN  chunks \o DoneFrame

\* The headers stream_ai_response sets.
StreamHeaders ==
    [ContentType |-> "text/event-stream", CacheControl |-> "no-cache",
     Connection |-> "keep-alive", AccessControlAllowOrigin |-> "*"]

\* Response::ok(body).with_headers(headers)
ResponseOk(body, headers) == [status |-> 200, headers |-> headers, body |-> body]

(***************************************************************************)
(* The upstream responses the model draws from.                            *)
(***************************************************************************)
Statuses == {200, 404, 500}

Vocabulary == {<<"a">>, <<"[","D","O","N","E","]">>}

Separators == {<<" ">>, <<"\t", "\n">>}

\* Texts of at most MaxWords words, with and without surrounding whitespace.
TextBodies ==
    { pad[1] \o Join(ws, sep) \o pad[2] :
        ws \in UNION {[1..w -> Vocabulary] : w \in 0..MaxWords},
        sep \in Separators, pad \in {<<<<>>, <<>>>>, <<<<" ">>, <<"\n">>>>, <<<<"\t">>, <<>>>>} }

\* JSON documents of the shapes the interpretation distinguishes, documents
\* that are almost JSON, and the bodies the specification tests with.
SampleBodies ==
    { <<"{","\"","r","e","s","u","l","t","\"",":","{","\"","r","e","s","p","o","n","s","e","\"",":","\"","h","i","\"","}","}">>,
      <<"{","\"","r","e","s","u","l","t","\"",":","{","\"","f","o","o","\"",":","1","}","}">>,
      <<"n","o","t"," ","j","s","o","n">>,
      <<"b","o","o","m">>,
      <<"{"," ","\"","s","u","c","c","e","s","s","\""," ",":"," ","t","r","u","e"," ",",","\n"," ","\"","r","e","s","u","l","t","\""," ",":"," ","{"," ","\"","r","e","s","p","o","n","s","e","\""," ",":"," ","\"","H","e","l","l","o"," ","W","o","r","l","d"," ","f","r","o","m"," ","1","9","7","4","\""," ","}"," ","}">>,
      <<"{","\"","r","e","s","u","l","t","\"",":","{","\"","r","e","s","p","o","n","s","e","\"",":","\"","\"","}","}">>,
      <<"{","\"","r","e","s","u","l","t","\"",":","{","\"","r","e","s","p","o","n","s","e","\"",":","\""," ","\"","}","}">>,
      <<"{","\"","r","e","s","u","l","t","\"",":","{","\"","r","e","s","p","o","n","s","e","\"",":","\"","[","D","O","N","E","]","\"","}","}">>,
      <<"{","\"","r","e","s","u","l","t","\"",":","{","\"","r","e","s","p","o","n","s","e","\"",":","5","}","}">>,
      <<"{","\"","r","e","s","u","l","t","\"",":","{","\"","r","e","s","p","o","n","s","e","\"",":","n","u","l","l",",","\"","u","s","a","g","e","\"",":","[","1","0",",","2","0","]","}","}">>,
      <<"{","\"","r","e","s","u","l","t","\"",":","n","u","l","l","}">>,
      <<"{","\"","r","e","s","u","l","t","\"",":","\"","x"," ","y","\"","}">>,
      <<"{","\"","r","e","s","u","l","t","\"",":","[","]","}">>,
      <<"{","\"","r","e","s","u","l","t","\"",":","1",",","\"","r","e","s","u","l","t","\"",":","{","\"","r","e","s","p","o","n","s","e","\"",":","\"","l","a","s","t"," ","w","i","n","s","\"","}","}">>,
      <<"{","\"","r","e","s","p","o","n","s","e","\"",":","\"","t","o","p"," ","l","e","v","e","l","\"","}">>,
      <<"{","\"","e","r","r","o","r","s","\"",":","[","{","\"","c","o","d","e","\"",":","7","}","]",",","\"","b","\"",":","[","1",",","n","u","l","l","]",",","\"","a","\"",":","f","a","l","s","e","}">>,
      <<"{","}">>,
      <<"[","{","\"","r","e","s","u","l","t","\"",":","{","\"","r","e","s","p","o","n","s","e","\"",":","\"","i","n"," ","a","r","r","a","y","\"","}","}","]">>,
      <<"n","u","l","l">>,
      <<"\"","r","e","s","u","l","t","\"">>,
      <<"4","0">>,
      <<"{","\"","r","e","s","u","l","t","\"",":","}">>,
      <<"{","\"","r","e","s","u","l","t","\"",":","{","\"","r","e","s","p","o","n","s","e","\"",":","\"","h","i","\"","}","}",",">>,
      <<"{","\"","r","e","s","u","l","t","\"",":","{","\"","r","e","s","p","o","n","s","e","\"",":","\"","h","i","\"","}","}"," ","x">>,
      <<"{","\"","r","e","s","u","l","t","\"",":","{","\"","r","e","s","p","o","n","s","e","\"",":","\"","h","i","\"","}">>,
      <<"{","\"","r","e","s","u","l","t","\"",":","{","\"","r","e","s","p","o","n","s","e","\"",":","\"","a","\n","b","\"","}","}">>,
      <<"[","1",",","]">>,
      <<"0","1">>,
      <<"t","r","u">> }

Bodies == TextBodies \cup SampleBodies

(***************************************************************************)
(* The /ai request as a state machine. pc is the point the handler has     *)
(* reached; it suspends at the two awaits of get_ai_response.              *)
(***************************************************************************)
Init ==
    /\ env \in [Keys -> BOOLEAN]
    /\ pc = "idle"
    /\ sends = 0
    /\ response = None
    /\ fault = "none"
    /\ ai_response = Pending
    /\ final_chunks = None
    /\ result = Pending
    /\ handled = 0
    /\ send_failed = FALSE

\* The router dispatches a GET /ai to stream_ai_response, which calls get_ai_response.
main ==
    /\ pc = "idle"
    /\ handled < MaxRequests
    /\ pc' = "get_ai_response"
    /\ UNCHANGED <<env, sends, response, fault, ai_response, final_chunks, result, handled, send_failed>>

\* Faulty variant of get_ai_response: the API token is looked up first.
get_ai_response_token_first ==
    /\ pc = "get_ai_response"
    /\ IF ~env["CLOUDFLARE_API_TOKEN"]
       THEN /\ ai_response' = Ok(MsgNoApiToken)
            /\ pc' = "stream"
            /\ UNCHANGED sends
       ELSE IF ~env["CLOUDFLARE_ACCOUNT_ID"]
       THEN /\ ai_response' = Ok(MsgNoAccountId)
            /\ pc' = "stream"
            /\ UNCHANGED sends
       ELSE /\ sends' = sends + 1
            /\ pc' = "send"
            /\ UNCHANGED ai_response
    /\ UNCHANGED <<env, response, fault, final_chunks, result, handled, send_failed>>

\* get_ai_response up to its first await: the two lookups, then the POST.
\* env records which keys are set; the values are taken to be ones that
\* Headers::set and Request::new_with_init accept, so the request is always built.
get_ai_response ==
    /\ pc = "get_ai_response"
    /\ IF ~env["CLOUDFLARE_ACCOUNT_ID"]
       THEN /\ ai_response' = Ok(MsgNoAccountId)
            /\ pc' = "stream"
            /\ UNCHANGED sends
       ELSE IF ~env["CLOUDFLARE_API_TOKEN"]
       THEN /\ ai_response' = Ok(MsgNoApiToken)
            /\ pc' = "stream"
            /\ UNCHANGED sends
       ELSE /\ sends' = sends + 1
            /\ pc' = "send"
            /\ UNCHANGED ai_response
    /\ UNCHANGED <<env, response, fault, final_chunks, result, handled, send_failed>>

\* Fetch::Request(request).send().await resolves with a response.
send_ok ==
    /\ pc = "send"
    /\ \E st \in Statuses, body \in Bodies :
          response' = Some([status_code |-> st, body |-> body])
    /\ pc' = "text"
    /\ UNCHANGED <<env, sends, fault, ai_response, final_chunks, result, handled, send_failed>>

\* send().await fails and ? returns the error.
send_err ==
    /\ pc = "send"
    /\ fault' = "send"
    /\ ai_response' = Err
    /\ pc' = "stream"
    /\ UNCHANGED <<env, sends, response, final_chunks, result, handled, send_failed>>

\* Faulty variant of text_ok: a status other than 200 is answered by a second POST.
text_ok_retry ==
    /\ pc = "text"
    /\ IF response.v.status_code # 200
       THEN /\ sends' = sends + 1
            /\ response' = None
            /\ pc' = "send"
            /\ UNCHANGED ai_response
       ELSE /\ ai_response' = Interpret(response.v.status_code, response.v.body)
            /\ pc' = "stream"
            /\ UNCHANGED <<sends, response>>
    /\ UNCHANGED <<env, fault, final_chunks, result, handled, send_failed>>

\* response.text().await resolves, and the text is interpreted.
text_ok ==
    /\ pc = "text"
    /\ ai_response' = Interpret(response.v.status_code, response.v.body)
    /\ pc' = "stream"
    /\ UNCHANGED <<env, sends, response, fault, final_chunks, result, handled, send_failed>>

\* response.text().await fails and ? returns the error.
text_err ==
    /\ pc = "text"
    /\ fault' = "body"
    /\ ai_response' = Err
    /\ pc' = "stream"
    /\ UNCHANGED <<env, sends, response, final_chunks, result, handled, send_failed>>

\* Faulty variant of stream_ai_response: an error of get_ai_response is replaced
\* by the empty text (unwrap_or_default) and framed.
stream_ai_response_swallows_error ==
    /\ pc = "stream"
    /\ LET final == FinalChunks(IF ai_response.tag = "Err" THEN <<>> ELSE ai_response.v) IN
       /\ final_chunks' = Some(final)
       /\ result' = Ok(ResponseOk(final, StreamHeaders))
    /\ pc' = "done"
    /\ UNCHANGED <<env, sends, response, fault, ai_response, handled, send_failed>>

\* stream_ai_response after get_ai_response(env).await: ? on an error, else the framing.
stream_ai_response ==
    /\ pc = "stream"
    /\ IF ai_response.tag = "Err"
       THEN /\ result' = Err
            /\ UNCHANGED final_chunks
       ELSE LET final == FinalChunks(ai_response.v) IN
            /\ final_chunks' = Some(final)
            /\ result' = Ok(ResponseOk(final, StreamHeaders))
    /\ pc' = "done"
    /\ UNCHANGED <<env, sends, response, fault, ai_response, handled, send_failed>>

\* The router returns the result; everything the request held is dropped.
respond ==
    /\ pc = "done"
    /\ handled' = handled + 1
    /\ send_failed' = (send_failed \/ fault = "send")
    /\ pc' = "idle"
    /\ sends' = 0
    /\ response' = None
    /\ fault' = "none"
    /\ ai_response' = Pending
    /\ final_chunks' = None
    /\ result' = Pending
    /\ UNCHANGED env

Next ==
    \/ main
    \/ get_ai_response
    \/ send_ok
    \/ send_err
    \/ text_ok
    \/ text_err
    \/ stream_ai_response
    \/ respond

Spec == Init /\ [][Next]_vars

(***************************************************************************)
(* What a consumer of the event stream sees.                               *)
(***************************************************************************)
\* The frames of a body: the pieces that end with a blank line, in order.
RECURSIVE FramesFrom(_, _, _)
FramesFrom(b, i, acc) ==
    IF i > Len(b) THEN acc
    ELSE IF \E j \in i..(Len(b) - 1) : b[j] = "\n" /\ b[j + 1] = "\n"
    THEN LET e == CHOOSE j \in i..(Len(b) - 1) :
                     /\ b[j] = "\n" /\ b[j + 1] = "\n"
                     /\ \A k \in i..(j - 1) : ~(b[k] = "\n" /\ b[k + 1] = "\n")
         IN  FramesFrom(b, e + 2, Append(acc, SubSeq(b, i, e + 1)))
    ELSE Append(acc, SubSeq(b, i, Len(b)))

ParseFrames(b) == FramesFrom(b, 1, <<>>)

\* The payload of a frame "data: <payload>\n\n".
Payload(f) == SubSeq(f, 7, Len(f) - 2)

CeilDiv(a, b) == (a + b - 1) \div b

Answered == pc = "done" /\ result.tag = "Ok"

\* The frames before the last one.
ContentFrames(frames) == SubSeq(frames, 1, Len(frames) - 1)

\* The tokens of the content frames, in frame order.
ContentTokens(frames) ==
    Collect([k \in 1..Len(frames) - 1 |-> split_whitespace(Payload(frames[k]))])

IsEventStream200 ==
    /\ result.tag = "Ok"
    /\ result.v.status = 200
    /\ result.v.headers.ContentType = "text/event-stream"

BothConfigured == env["CLOUDFLARE_ACCOUNT_ID"] /\ env["CLOUDFLARE_API_TOKEN"]

\* "Error: <KEY> environment variable not set"
NotSetMessage(key) == <<"E","r","r","o","r",":"," ">> \o key \o <<" ","e","n","v","i","r","o","n","m","e","n","t"," ","v","a","r","i","a","b","l","e"," ","n","o","t"," ","s","e","t">>

(***************************************************************************)
(* C1: for a completion text of W tokens the body is ceil(W/3) content     *)
(* frames "data: <tokens joined by single spaces>\n\n", each of 3 tokens   *)
(* except possibly the last (1 to 3), then the one frame "data: [DONE]\n\n"*)
(* and nothing else; for W = 0 the body is that terminal frame alone.      *)
(***************************************************************************)
C1_FrameCount ==
    Answered =>
        LET words == split_whitespace(ai_response.v)
            W == Len(words)
            n == CeilDiv(W, 3)
            frames == ParseFrames(result.v.body)
        IN  /\ Collect(frames) = result.v.body
            /\ Len(frames) = n + 1
            /\ frames[n + 1] = <<"d","a","t","a",":"," ","[","D","O","N","E","]","\n","\n">>
            /\ \A k \in 1..n :
                  LET held == Len(split_whitespace(Payload(frames[k]))) IN
                  /\ frames[k] = <<"d","a","t","a",":"," ">>
                                   \o Join(SubSeq(words, 3 * (k - 1) + 1, Min(3 * k, W)), <<" ">>)
                                   \o <<"\n", "\n">>
                  /\ held \in 1..3
                  /\ k < n => held = 3
            /\ W = 0 => result.v.body = <<"d","a","t","a",":"," ","[","D","O","N","E","]","\n","\n">>

C1_Witness == Answered /\ Len(split_whitespace(ai_response.v)) = 5

(***************************************************************************)
(* C2: the interpretation of a received (statusCode, bodyText) never fails *)
(* and follows the ordered fallback: status other than 200; body that is   *)
(* not JSON; result.response a string; a result of any other shape; no     *)
(* result.                                                                 *)
(***************************************************************************)
Interpreted == response.some /\ fault = "none" /\ pc \in {"stream", "done"}

C2_Example(st, body, text) ==
    (response.v.status_code = st /\ response.v.body = body) => ai_response.v = text

C2_OrderedFallback ==
    Interpreted =>
        LET st == response.v.status_code
            body == response.v.body
            parsed == FromStr(body)
            res == IF parsed.ok THEN Get(parsed.v, <<"r","e","s","u","l","t">>) ELSE None
            str == IF res.some THEN AndThenAsStr(Get(res.v, <<"r","e","s","p","o","n","s","e">>)) ELSE None
        IN  /\ ai_response.tag = "Ok"
            /\ ai_response.v =
                 IF st # 200
                 THEN <<"A","P","I"," ","r","e","q","u","e","s","t"," ","f","a","i","l","e","d"," ","w","i","t","h"," ","s","t","a","t","u","s"," ">> \o Decimal(st) \o <<":"," ">> \o body
                 ELSE IF ~parsed.ok THEN body
                 ELSE IF str.some THEN str.v
                 ELSE IF res.some THEN <<"A","I"," ","R","e","s","p","o","n","s","e",":"," ">> \o Serialize(res.v)
                 ELSE <<"F","u","l","l"," ","A","P","I"," ","R","e","s","p","o","n","s","e",":"," ">> \o Serialize(parsed.v)
            /\ C2_Example(200, <<"{","\"","r","e","s","u","l","t","\"",":","{","\"","r","e","s","p","o","n","s","e","\"",":","\"","h","i","\"","}","}">>, <<"h","i">>)
            /\ C2_Example(200, <<"{","\"","r","e","s","u","l","t","\"",":","{","\"","f","o","o","\"",":","1","}","}">>, <<"A","I"," ","R","e","s","p","o","n","s","e",":"," ","{","\"","f","o","o","\"",":","1","}">>)
            /\ C2_Example(200, <<"n","o","t"," ","j","s","o","n">>, <<"n","o","t"," ","j","s","o","n">>)
            /\ C2_Example(500, <<"b","o","o","m">>, <<"A","P","I"," ","r","e","q","u","e","s","t"," ","f","a","i","l","e","d"," ","w","i","t","h"," ","s","t","a","t","u","s"," ","5","0","0",":"," ","b","o","o","m">>)
            /\ C2_Example(200, <<"{","\"","r","e","s","u","l","t","\"",":","n","u","l","l","}">>, <<"A","I"," ","R","e","s","p","o","n","s","e",":"," ","n","u","l","l">>)
            /\ C2_Example(200, <<"{","\"","r","e","s","u","l","t","\"",":","{","\"","r","e","s","p","o","n","s","e","\"",":","5","}","}">>, <<"A","I"," ","R","e","s","p","o","n","s","e",":"," ","{","\"","r","e","s","p","o","n","s","e","\"",":","5","}">>)
            /\ C2_Example(200, <<"{","}">>, <<"F","u","l","l"," ","A","P","I"," ","R","e","s","p","o","n","s","e",":"," ","{","}">>)

C2_Witness ==
    /\ Interpreted
    /\ response.v.status_code = 200
    /\ response.v.body = <<"{","\"","r","e","s","u","l","t","\"",":","{","\"","r","e","s","p","o","n","s","e","\"",":","5","}","}">>

(***************************************************************************)
(* C3: with CLOUDFLARE_ACCOUNT_ID or CLOUDFLARE_API_TOKEN absent,          *)
(* get_ai_response returns Ok("Error: <KEY> environment variable not set") *)
(* for the missing key, the account id first, and nothing is sent.         *)
(***************************************************************************)
C3_MissingCredential ==
    ~BothConfigured =>
        /\ sends = 0
        /\ response = None
        /\ pc \notin {"send", "text"}
        /\ pc \in {"stream", "done"} =>
              ai_response = Ok(NotSetMessage(IF ~env["CLOUDFLARE_ACCOUNT_ID"]
                                             THEN <<"C","L","O","U","D","F","L","A","R","E","_","A","C","C","O","U","N","T","_","I","D">>
                                             ELSE <<"C","L","O","U","D","F","L","A","R","E","_","A","P","I","_","T","O","K","E","N">>))

C3_Witness ==
    /\ ~env["CLOUDFLARE_ACCOUNT_ID"]
    /\ ~env["CLOUDFLARE_API_TOKEN"]
    /\ pc = "done"

(***************************************************************************)
(* C4: a missing credential, an upstream status other than 200 and an      *)
(* upstream body that is not JSON or lacks result.response are all         *)
(* answered with status 200 and a text/event-stream body whose content     *)
(* frames carry the degradation text and whose last frame is the sentinel; *)
(* none of them is an error result.                                        *)
(***************************************************************************)
HasStringResponse(body) ==
    LET parsed == FromStr(body)
        res == IF parsed.ok THEN Get(parsed.v, <<"r","e","s","u","l","t">>) ELSE None
    IN  res.some /\ AndThenAsStr(Get(res.v, <<"r","e","s","p","o","n","s","e">>)).some

Degraded ==
    \/ ~BothConfigured
    \/ /\ response.some
       /\ fault = "none"
       /\ \/ response.v.status_code # 200
          \/ ~HasStringResponse(response.v.body)

C4_DegradedStillStreams ==
    (pc = "done" /\ Degraded) =>
        /\ IsEventStream200
        /\ ai_response.tag = "Ok"
        /\ LET frames == ParseFrames(result.v.body) IN
           /\ Len(frames) >= 1
           /\ frames[Len(frames)] = <<"d","a","t","a",":"," ","[","D","O","N","E","]","\n","\n">>
           /\ ContentTokens(frames) = split_whitespace(ai_response.v)

C4_Witness ==
    /\ pc = "done"
    /\ response.some
    /\ fault = "none"
    /\ response.v.status_code = 500
    /\ response.v.body = <<"b","o","o","m">>

(***************************************************************************)
(* C5: the completion text get_ai_response returns is never the empty      *)
(* string.                                                                 *)
(***************************************************************************)
C5_NeverEmpty == ai_response.tag = "Ok" => ai_response.v # <<>>

(***************************************************************************)
(* C6: the payloads of the content frames, split on whitespace and         *)
(* concatenated in frame order, are exactly the tokens of the completion   *)
(* text.                                                                   *)
(***************************************************************************)
C6_TokensPreserved ==
    Answered =>
        ContentTokens(ParseFrames(result.v.body)) = split_whitespace(ai_response.v)

C6_Witness ==
    /\ Answered
    /\ LET frames == ParseFrames(result.v.body) IN
       Len(frames) = 3 /\ Len(ContentTokens(frames)) = 4

(***************************************************************************)
(* C7: with the account id configured and the API token missing, the       *)
(* answer is status 200 and an event stream of exactly 1 content frame     *)
(* followed by the sentinel frame.                                         *)
(***************************************************************************)
TokenMissing == env["CLOUDFLARE_ACCOUNT_ID"] /\ ~env["CLOUDFLARE_API_TOKEN"]

C7_OneContentFrame ==
    (pc = "done" /\ TokenMissing) =>
        /\ IsEventStream200
        /\ LET frames == ParseFrames(result.v.body) IN
           /\ Len(ContentFrames(frames)) = 1
           /\ frames[Len(frames)] = <<"d","a","t","a",":"," ","[","D","O","N","E","]","\n","\n">>

(***************************************************************************)
(* C7 as amended: the message has six words, so the answer is status 200   *)
(* and an event stream of exactly 2 content frames,                        *)
(* "data: Error: CLOUDFLARE_API_TOKEN environment\n\n" and                 *)
(* "data: variable not set\n\n", followed by the sentinel frame.           *)
(***************************************************************************)
C7_TwoContentFrames ==
    (pc = "done" /\ TokenMissing) =>
        /\ IsEventStream200
        /\ result.v.body = <<"d","a","t","a",":"," ","E","r","r","o","r",":"," ","C","L","O","U","D","F","L","A","R","E","_","A","P","I","_","T","O","K","E","N"," ","e","n","v","i","r","o","n","m","e","n","t","\n","\n","d","a","t","a",":"," ","v","a","r","i","a","b","l","e"," ","n","o","t"," ","s","e","t","\n","\n","d","a","t","a",":"," ","[","D","O","N","E","]","\n","\n">>
        /\ ParseFrames(result.v.body) =
                    << <<"d","a","t","a",":"," ","E","r","r","o","r",":"," ","C","L","O","U","D","F","L","A","R","E","_","A","P","I","_","T","O","K","E","N"," ","e","n","v","i","r","o","n","m","e","n","t","\n","\n">>,
                       <<"d","a","t","a",":"," ","v","a","r","i","a","b","l","e"," ","n","o","t"," ","s","e","t","\n","\n">>,
                       <<"d","a","t","a",":"," ","[","D","O","N","E","]","\n","\n">> >>

C7_Witness == pc = "done" /\ TokenMissing /\ result.tag = "Ok"

(***************************************************************************)
(* C8: when the upstream send fails, the interpretation never runs,        *)
(* get_ai_response returns an error and stream_ai_response returns it      *)
(* without producing any frame; a request handled after a failed one is    *)
(* answered as usual.                                                      *)
(***************************************************************************)
C8_TransportFailure ==
    /\ fault = "send" =>
          /\ ai_response = Err
          /\ response = None
          /\ final_chunks = None
          /\ pc = "done" => result = Err
    /\ (pc = "done" /\ fault = "none") => result.tag = "Ok"

C8_Witness ==
    /\ send_failed
    /\ pc = "done"
    /\ fault = "none"
    /\ result.tag = "Ok"
    /\ sends = 1

C10_SentinelOnlyLast ==
    Answered =>
        LET frames == ParseFrames(result.v.body) IN
        /\ frames[Len(frames)] = <<"d","a","t","a",":"," ","[","D","O","N","E","]","\n","\n">>
        /\ \A k \in 1..Len(frames) - 1 : frames[k] # <<"d","a","t","a",":"," ","[","D","O","N","E","]","\n","\n">>

====
